---------------------------- MODULE Spec2Model ----------------------------
(***************************************************************************)
(* Request gatekeeper of asus-press-directus: the Origin/CSRF check, the   *)
(* two body property checks, the GraphQL endpoint check, the chain the     *)
(* hook registers them in, and the 403-to-404 status rewriter.             *)
(*                                                                         *)
(* Strings whose characters the code looks at (URLs, header values, the    *)
(* environment variables) are sequences of one-character strings, so that  *)
(* URL parsing, toLowerCase, includes, split, trim and the endpoint        *)
(* regular expression are computed, not assumed.  Strings the code only    *)
(* compares for equality (methods, body keys) are TLA+ strings.            *)
(* A JavaScript value that may be undefined is a sequence of length 0      *)
(* (undefined) or 1 (the value).                                           *)
(***************************************************************************)
EXTENDS Integers, Sequences, FiniteSets, TLC

VARIABLES
    allowedOrigins,  \* ALLOWED_ORIGINS captured by createCheckOriginMiddleware
    requestUrl,      \* REQUEST_URL captured by createCheckOriginMiddleware
    setup,           \* history: the configuration as computed at setup
    conn,            \* the in-flight request/response exchanges
    served           \* history: the number of exchanges that are over

vars == <<allowedOrigins, requestUrl, setup, conn, served>>

---------------------------------------------------------------------------
(* JavaScript values                                                       *)

undefined == <<>>

Some(v) == <<v>>

\* JavaScript truthiness of a string-or-undefined value: undefined and ""
\* are falsy.
Truthy(x) == x # undefined /\ x[1] # <<>>

\* a || b
OrElse(a, b) == IF Truthy(a) THEN a ELSE b

---------------------------------------------------------------------------
(* String primitives                                                       *)

UPPER == <<"A","B","C","D","E","F","G","H","I","J","K","L","M",
           "N","O","P","Q","R","S","T","U","V","W","X","Y","Z">>

LOWER == <<"a","b","c","d","e","f","g","h","i","j","k","l","m",
           "n","o","p","q","r","s","t","u","v","w","x","y","z">>

Digits == {"0","1","2","3","4","5","6","7","8","9"}

AsciiAlpha == {UPPER[k] : k \in 1..26} \cup {LOWER[k] : k \in 1..26}

lowerChar(c) ==
    IF \E k \in 1..26 : UPPER[k] = c
    THEN LOWER[CHOOSE k \in 1..26 : UPPER[k] = c]
    ELSE c

\* String.prototype.toLowerCase
RECURSIVE toLowerCase(_)
toLowerCase(s) ==
    IF s = <<>> THEN <<>> ELSE <<lowerChar(Head(s))>> \o toLowerCase(Tail(s))

\* String.prototype.includes
includes(s, t) ==
    \E k \in 0..(Len(s) - Len(t)) : SubSeq(s, k + 1, k + Len(t)) = t

\* index of the first character of s that is in cs, 0 when there is none
indexOfAny(s, cs) ==
    IF \E k \in 1..Len(s) : s[k] \in cs
    THEN CHOOSE k \in 1..Len(s) :
            s[k] \in cs /\ \A j \in 1..(k - 1) : s[j] \notin cs
    ELSE 0

\* index of the last character of s that is in cs, 0 when there is none
lastIndexOfAny(s, cs) ==
    IF \E k \in 1..Len(s) : s[k] \in cs
    THEN CHOOSE k \in 1..Len(s) :
            s[k] \in cs /\ \A j \in (k + 1)..Len(s) : s[j] \notin cs
    ELSE 0

startsWith(s, t) == Len(s) >= Len(t) /\ SubSeq(s, 1, Len(t)) = t

from(s, k) == SubSeq(s, k, Len(s))

\* String.prototype.split on a one-character separator
RECURSIVE split(_, _)
split(s, sep) ==
    LET k == indexOfAny(s, {sep})
    IN  IF k = 0 THEN <<s>>
        ELSE <<SubSeq(s, 1, k - 1)>> \o split(from(s, k + 1), sep)

\* String.prototype.trim
RECURSIVE trim(_)
trim(s) ==
    IF s = <<>> THEN s
    ELSE IF Head(s) = " " THEN trim(Tail(s))
    ELSE IF s[Len(s)] = " " THEN trim(SubSeq(s, 1, Len(s) - 1))
    ELSE s

---------------------------------------------------------------------------
(* new URL(input).hostname, as the WHATWG URL parser computes it with no   *)
(* base URL, for inputs over ASCII letters, digits and - . + : / ? # @     *)
(* (no percent-escapes, no IPv4/IPv6 literals, no backslashes, no leading  *)
(* or trailing whitespace).                                                *)

SchemeChars == AsciiAlpha \cup Digits \cup {"+", "-", "."}

DomainChars == AsciiAlpha \cup Digits \cup {"-", "."}

http == <<"h","t","t","p">>

https == <<"h","t","t","p","s">>

ws == <<"w","s">>

wss == <<"w","s","s">>

ftp == <<"f","t","p">>

SpecialSchemes == {http, https, ws, wss, ftp}

Failure == [ok |-> FALSE, hostname |-> <<>>]

RECURSIVE skipSlashes(_)
skipSlashes(s) ==
    IF s # <<>> /\ Head(s) = "/" THEN skipSlashes(Tail(s)) ELSE s

\* authority state, host state and port state
parseAuthority(rest, special) ==
    LET end      == indexOfAny(rest, {"/", "?", "#"})
        auth     == IF end = 0 THEN rest ELSE SubSeq(rest, 1, end - 1)
        at       == lastIndexOfAny(auth, {"@"})
        hostport == from(auth, at + 1)
        colon    == indexOfAny(hostport, {":"})
        host     == IF colon = 0 THEN hostport
                    ELSE SubSeq(hostport, 1, colon - 1)
        port     == IF colon = 0 THEN <<>> ELSE from(hostport, colon + 1)
    IN  IF \E k \in 1..Len(port) : port[k] \notin Digits THEN Failure
        ELSE IF Len(port) > 5 THEN Failure
        ELSE IF \E k \in 1..Len(host) : host[k] \notin DomainChars THEN Failure
        ELSE IF special /\ host = <<>> THEN Failure
        ELSE IF ~special /\ host = <<>> /\ (at > 0 \/ colon > 0) THEN Failure
        ELSE [ok |-> TRUE,
              hostname |-> IF special THEN toLowerCase(host) ELSE host]

URL(input) ==
    LET colon == indexOfAny(input, {":"})
    IN  IF colon <= 1 THEN Failure
        ELSE IF input[1] \notin AsciiAlpha THEN Failure
        ELSE IF \E k \in 2..(colon - 1) : input[k] \notin SchemeChars
             THEN Failure
        ELSE LET scheme == toLowerCase(SubSeq(input, 1, colon - 1))
                 rest   == from(input, colon + 1)
             IN  IF scheme \in SpecialSchemes
                 THEN parseAuthority(skipSlashes(rest), TRUE)
                 ELSE IF startsWith(rest, <<"/", "/">>)
                 THEN parseAuthority(from(rest, 3), FALSE)
                 ELSE [ok |-> TRUE, hostname |-> <<>>]

---------------------------------------------------------------------------
(* Responses (the part of the Express response object the code uses)        *)

\* a fresh response: status 200, nothing sent, res.send not replaced.
\* calls is history: the status and the argument of every res.send call.
freshResponse ==
    [statusCode |-> 200, sent |-> <<>>, wrapped |-> FALSE, calls |-> <<>>]

\* res.status(code)
status(res, code) == [res EXCEPT !.statusCode = code]

\* the framework's res.send: the body goes out with the current status
originalSend(res, body) ==
    [res EXCEPT !.sent = Append(@, [status |-> res.statusCode, body |-> body])]

NotFoundMessage == "Not found."

\* the envelope built by the replaced res.send
notFoundEnvelope(req) ==
    [errors |-> << [message    |-> NotFoundMessage,
                    extensions |-> [code |-> "ROUTE_NOT_FOUND",
                                    path |-> req.originalUrl]] >>]

\* variant: the status is rewritten but the body is passed on
rewrittenSend_keepsBody(req, res, body) ==
    IF res.statusCode = 403
    THEN originalSend([res EXCEPT !.statusCode = 404], body)
    ELSE originalSend(res, body)

\* res.send as replaced by createStatusRewriteMiddleware
rewrittenSend(req, res, body) ==
    IF res.statusCode = 403
    THEN originalSend([res EXCEPT !.statusCode = 404], notFoundEnvelope(req))
    ELSE originalSend(res, body)

\* res.send(body): the replaced send when the rewriter has replaced it
send(req, res, body) ==
    LET r == [res EXCEPT !.calls =
                  Append(@, [status |-> res.statusCode, body |-> body])]
    IN  IF res.wrapped THEN rewrittenSend(req, r, body)
        ELSE originalSend(r, body)

\* what a middleware did: how many times it called next(), and the response
callNext(res) == [next |-> 1, res |-> res]

endRequest(res) == [next |-> 0, res |-> res]

AccessDenied == [error |-> <<"Access denied: unauthorized origin.">>]

CrossSiteForbidden(method) ==
    [error |-> <<"Cross-site ", method, " form submissions are forbidden">>]

InvalidProperties == [error |-> <<"Request contains invalid properties.">>]

InvalidEndpoint == [error |-> <<"Invalid endpoint.">>]

---------------------------------------------------------------------------
(* check-origin.ts                                                         *)

FORM_CONTENT_TYPES ==
    << <<"a","p","p","l","i","c","a","t","i","o","n","/","x","-","w","w","w",
         "-","f","o","r","m","-","u","r","l","e","n","c","o","d","e","d">>,
       <<"m","u","l","t","i","p","a","r","t","/","f","o","r","m","-","d","a",
         "t","a">>,
       <<"t","e","x","t","/","p","l","a","i","n">> >>

\* variant: OPTIONS left out of the safe methods
SAFE_METHODS_withoutOptions == <<"GET", "HEAD">>

SAFE_METHODS == <<"GET", "HEAD", "OPTIONS">>

\* Array.prototype.includes on an array of atoms
arrayIncludes(arr, x) == \E k \in 1..Len(arr) : arr[k] = x

\* variant: the content type is not lower-cased before the search
hasFormLikeHeader_caseSensitive(contentType) ==
    /\ Truthy(contentType)
    /\ \E k \in 1..Len(FORM_CONTENT_TYPES) :
          includes(contentType[1], FORM_CONTENT_TYPES[k])

hasFormLikeHeader(contentType) ==
    /\ Truthy(contentType)
    /\ \E k \in 1..Len(FORM_CONTENT_TYPES) :
          includes(toLowerCase(contentType[1]), FORM_CONTENT_TYPES[k])

\* variant: an allowed entry is never parsed, only compared as a string
matchesAllowedOrigin_rawOnly(sourceHost, allowedOrigin) ==
    sourceHost = allowedOrigin

\* the callback of allowedOrigins.some(...)
matchesAllowedOrigin(sourceHost, allowedOrigin) ==
    LET allowedUrl == URL(allowedOrigin)
    IN  IF allowedUrl.ok THEN sourceHost = allowedUrl.hostname
        ELSE sourceHost = allowedOrigin

isAllowed(origins, sourceHost) ==
    \E k \in 1..Len(origins) : matchesAllowedOrigin(sourceHost, origins[k])

\* variant: referer || origin
sourceUrlOf_refererFirst(req) ==
    OrElse(req.headers["referer"], req.headers["origin"])

\* const sourceUrl = origin || referer
sourceUrlOf(req) == OrElse(req.headers["origin"], req.headers["referer"])

\* variant: the catch block lets a request with an unparseable source pass
allowlistValidation_passOnParseError(origins, req, res) ==
    LET origin    == req.headers["origin"]
        referer   == req.headers["referer"]
        sourceUrl == OrElse(origin, referer)
    IN  IF ~Truthy(origin) /\ ~Truthy(referer) THEN callNext(res)
        ELSE IF ~Truthy(sourceUrl) THEN callNext(res)
        ELSE LET parsedUrl == URL(sourceUrl[1])
             IN  IF ~parsedUrl.ok THEN callNext(res)
                 ELSE IF \E k \in 1..Len(origins) :
                            LET allowedUrl == URL(origins[k])
                            IN  IF allowedUrl.ok
                                THEN parsedUrl.hostname = allowedUrl.hostname
                                ELSE parsedUrl.hostname = origins[k]
                 THEN callNext(res)
                 ELSE endRequest(send(req, status(res, 403), AccessDenied))

\* the branch taken when ALLOWED_ORIGINS is configured
allowlistValidation(origins, req, res) ==
    LET origin    == req.headers["origin"]
        referer   == req.headers["referer"]
        sourceUrl == sourceUrlOf(req)
    IN  IF ~Truthy(origin) /\ ~Truthy(referer) THEN callNext(res)
        ELSE IF ~Truthy(sourceUrl) THEN callNext(res)
        ELSE LET parsedUrl == URL(sourceUrl[1])
             IN  IF ~parsedUrl.ok
                 THEN endRequest(send(req, status(res, 403), AccessDenied))
                 ELSE IF ~isAllowed(origins, parsedUrl.hostname)
                 THEN endRequest(send(req, status(res, 403), AccessDenied))
                 ELSE callNext(res)

\* the branch taken when no ALLOWED_ORIGINS are configured
csrfProtection(baseUrl, req, res) ==
    LET origin      == req.headers["origin"]
        contentType == req.headers["content-type"]
        forbidden   == endRequest(send(req, status(res, 403),
                                       CrossSiteForbidden(req.method)))
    IN  IF ~Truthy(origin) THEN callNext(res)
        ELSE LET isSameOrigin == (origin[1] = baseUrl)
             IN  IF Truthy(contentType)
                 THEN IF hasFormLikeHeader(contentType) /\ ~isSameOrigin
                      THEN forbidden ELSE callNext(res)
                 ELSE IF ~isSameOrigin THEN forbidden ELSE callNext(res)

createCheckOriginMiddleware(origins, baseUrl, req, res) ==
    IF arrayIncludes(SAFE_METHODS, req.method) THEN callNext(res)
    ELSE IF Len(origins) > 0 THEN allowlistValidation(origins, req, res)
    ELSE csrfProtection(baseUrl, req, res)

---------------------------------------------------------------------------
(* property-validation.ts                                                  *)

\* Object.keys(req.body || {})
bodyKeys(req) == IF req.body = undefined THEN <<>> ELSE req.body[1]

GraphQLAllowedProps == <<"query", "variables", "operationName">>

AuthLoginAllowedProps == <<"email", "password", "mode">>

\* variant: props.some in place of props.every
createGraphQLPropertyValidation_some(req, res) ==
    LET props     == bodyKeys(req)
        allowedOk == \E k \in 1..Len(props) :
                        \E j \in 1..3 :
                            <<"query", "variables", "operationName">>[j] = props[k]
    IN  IF ~allowedOk
        THEN endRequest(send(req, status(res, 400),
                             [error |-> <<"Request contains invalid properties.">>]))
        ELSE callNext(res)

createGraphQLPropertyValidation(req, res) ==
    LET props     == bodyKeys(req)
        allowedOk == \A k \in 1..Len(props) :
                        arrayIncludes(GraphQLAllowedProps, props[k])
    IN  IF ~allowedOk
        THEN endRequest(send(req, status(res, 400), InvalidProperties))
        ELSE callNext(res)

\* variant: the rejection is not returned, so next() runs after the send
createAuthLoginPropertyValidation_noReturn(req, res) ==
    LET props     == bodyKeys(req)
        allowedOk == \A k \in 1..Len(props) :
                        \E j \in 1..3 :
                            <<"email", "password", "mode">>[j] = props[k]
    IN  IF ~allowedOk
        THEN callNext(send(req, status(res, 400),
                           [error |-> <<"Request contains invalid properties.">>]))
        ELSE callNext(res)

createAuthLoginPropertyValidation(req, res) ==
    LET props     == bodyKeys(req)
        allowedOk == \A k \in 1..Len(props) :
                        arrayIncludes(AuthLoginAllowedProps, props[k])
    IN  IF ~allowedOk
        THEN endRequest(send(req, status(res, 400), InvalidProperties))
        ELSE callNext(res)

---------------------------------------------------------------------------
(* endpoint-validation.ts                                                  *)

graphqlSlash == <<"/","g","r","a","p","h","q","l","/">>

system == <<"s","y","s","t","e","m">>

\* /^\/graphql\/(?!system(?:\/|$)).*/.test(url)
invalidGraphQLEndpoint(url) ==
    /\ startsWith(url, graphqlSlash)
    /\ LET rest == from(url, Len(graphqlSlash) + 1)
       IN  ~ ( /\ startsWith(rest, system)
               /\ (Len(rest) = Len(system) \/ rest[Len(system) + 1] = "/") )

createGraphQLEndpointValidation(req, res) ==
    IF invalidGraphQLEndpoint(req.originalUrl)
    THEN endRequest(send(req, status(res, 400), InvalidEndpoint))
    ELSE callNext(res)

---------------------------------------------------------------------------
(* the status rewriter                                                     *)

createStatusRewriteMiddleware(req, res) ==
    callNext([res EXCEPT !.wrapped = TRUE])

---------------------------------------------------------------------------
(* index.ts: setup and the registered chain                                *)

DEFAULT_PUBLIC_URL ==
    <<"h","t","t","p",":","/","/","l","o","c","a","l","h","o","s","t",":",
      "8","0","5","5">>

\* process.env.ALLOWED_ORIGINS ? split(",").map(trim) : []
ALLOWED_ORIGINS(env) ==
    IF Truthy(env.ALLOWED_ORIGINS)
    THEN LET parts == split(env.ALLOWED_ORIGINS[1], ",")
         IN  [k \in 1..Len(parts) |-> trim(parts[k])]
    ELSE <<>>

\* process.env.PUBLIC_URL || "http://localhost:8055"
REQUEST_URL(env) ==
    IF Truthy(env.PUBLIC_URL) THEN env.PUBLIC_URL[1] ELSE DEFAULT_PUBLIC_URL

\* variant: the endpoint check registered ahead of the property checks
Layers_endpointFirst ==
    << [name |-> "checkOrigin",       mount |-> <<>>],
       [name |-> "graphqlEndpoint",   mount |-> <<>>],
       [name |-> "graphqlProperties", mount |-> <<"/","g","r","a","p","h","q","l">>],
       [name |-> "loginProperties",
        mount |-> <<"/","a","u","t","h","/","l","o","g","i","n">>] >>

\* the app.use calls, in order; mount <<>> is app.use(fn)
Layers ==
    << [name |-> "checkOrigin",       mount |-> <<>>],
       [name |-> "graphqlProperties", mount |-> <<"/","g","r","a","p","h","q","l">>],
       [name |-> "loginProperties",
        mount |-> <<"/","a","u","t","h","/","l","o","g","i","n">>],
       [name |-> "graphqlEndpoint",   mount |-> <<>>] >>

\* the path of a request URL: the URL up to its query string
pathname(url) ==
    LET q == indexOfAny(url, {"?"})
    IN  IF q = 0 THEN url ELSE SubSeq(url, 1, q - 1)

\* Express matches a mount path as a case-insensitive prefix of the path
\* that ends at a path-segment boundary
mountMatches(mount, url) ==
    LET path == toLowerCase(pathname(url))
    IN  /\ startsWith(path, toLowerCase(mount))
        /\ \/ Len(path) = Len(mount)
           \/ path[Len(mount) + 1] = "/"

\* next(): the first layer after layer k whose mount matches, or
\* Len(Layers) + 1 when the request leaves the chain
dispatch(req, k) ==
    IF \E j \in (k + 1)..Len(Layers) : mountMatches(Layers[j].mount, req.originalUrl)
    THEN CHOOSE j \in (k + 1)..Len(Layers) :
            /\ mountMatches(Layers[j].mount, req.originalUrl)
            /\ \A h \in (k + 1)..(j - 1) :
                  ~mountMatches(Layers[h].mount, req.originalUrl)
    ELSE Len(Layers) + 1

---------------------------------------------------------------------------
(* Inputs                                                                  *)

VALID_ORIGIN ==
    <<"h","t","t","p","s",":","/","/","c","m","s",".","d","e","v">>

INVALID_ORIGIN ==
    <<"h","t","t","p","s",":","/","/","e","v","i","l",".","c","o","m">>

VALID_HOST_OTHER_PORT ==
    <<"h","t","t","p",":","/","/","c","m","s",".","d","e","v",":","8","0",
    "8","0">>

VALID_HOST_UPPERCASE ==
    <<"H","T","T","P","S",":","/","/","C","M","S",".","d","e","v">>

SUFFIXED_ORIGIN ==
    <<"h","t","t","p","s",":","/","/","c","m","s",".","d","e","v",".","e",
    "v","i","l",".","c","o","m">>

NULL_ORIGIN == <<"n","u","l","l">>

BARE_HOST == <<"c","m","s",".","d","e","v">>

OPAQUE_ORIGIN == <<"a","p","p",":","x">>

VALID_REFERER ==
    <<"h","t","t","p","s",":","/","/","c","m","s",".","d","e","v","/","a",
    "d","m","i","n","?","n","e","x","t","=","x">>

INVALID_REFERER ==
    <<"h","t","t","p","s",":","/","/","e","v","i","l",".","c","o","m","/",
    "p","o","s","t">>

CT_JSON == <<"a","p","p","l","i","c","a","t","i","o","n","/","j","s","o","n">>

CT_URLENCODED ==
    <<"a","p","p","l","i","c","a","t","i","o","n","/","x","-","w","w","w",
    "-","f","o","r","m","-","u","r","l","e","n","c","o","d","e","d">>

CT_MULTIPART ==
    <<"m","u","l","t","i","p","a","r","t","/","f","o","r","m","-","d","a",
    "t","a",";"," ","b","o","u","n","d","a","r","y","=","x">>

CT_TEXT_UPPER ==
    <<"T","e","x","t","/","P","l","a","i","n",";"," ","c","h","a","r","s",
    "e","t","=","U","T","F","-","8">>

ENV_LIST ==
    <<"h","t","t","p","s",":","/","/","a","p","i",".","d","e","v"," ",",",
    " ","c","m","s",".","d","e","v">>

ENV_UPPER == <<"C","M","S",".","d","e","v">>

ENV_HOSTPORT == <<"c","m","s",".","d","e","v",":","8","0","8","0">>

ENV_TRAILING == <<"a","p","i",".","d","e","v",",">>

U_GRAPHQL == <<"/","g","r","a","p","h","q","l">>

U_GRAPHQL_SLASH == <<"/","g","r","a","p","h","q","l","/">>

U_SYSTEM == <<"/","g","r","a","p","h","q","l","/","s","y","s","t","e","m">>

U_SYSTEM_SLASH ==
    <<"/","g","r","a","p","h","q","l","/","s","y","s","t","e","m","/">>

U_SYSTEM_SUB ==
    <<"/","g","r","a","p","h","q","l","/","s","y","s","t","e","m","/","x">>

U_SYSTEMX ==
    <<"/","g","r","a","p","h","q","l","/","s","y","s","t","e","m","x">>

U_MALICIOUS ==
    <<"/","g","r","a","p","h","q","l","/","m","a","l","i","c","i","o","u",
    "s">>

U_SYSTEM_QUERY ==
    <<"/","g","r","a","p","h","q","l","/","s","y","s","t","e","m","?","q",
    "u","e","r","y","=","x">>

U_GRAPHQL_QUERY ==
    <<"/","g","r","a","p","h","q","l","?","q","u","e","r","y","=","x">>

U_LOGIN == <<"/","a","u","t","h","/","l","o","g","i","n">>

U_PING == <<"/","s","e","r","v","e","r","/","p","i","n","g">>

U_GRAPHQLX ==
    <<"/","g","r","a","p","h","q","l","x","/","m","a","l","i","c","i","o",
    "u","s">>

EMPTY == <<>>

environment(allowed, publicUrl) ==
    [ALLOWED_ORIGINS |-> allowed, PUBLIC_URL |-> publicUrl]

\* the environments the hook is set up in
Envs ==
    {environment(undefined, undefined), environment(Some(EMPTY), Some(VALID_ORIGIN)),
     environment(Some(VALID_ORIGIN), undefined), environment(Some(BARE_HOST), undefined),
     environment(Some(ENV_LIST), Some(VALID_ORIGIN)), environment(Some(ENV_UPPER), undefined),
     environment(Some(ENV_HOSTPORT), undefined), environment(Some(ENV_TRAILING), undefined)}

\* the environments of the concurrent exchanges
ConcurrentEnvs ==
    {environment(undefined, undefined),
     environment(Some(EMPTY), Some(VALID_ORIGIN)),
     environment(Some(VALID_ORIGIN), undefined),
     environment(Some(ENV_LIST), Some(VALID_ORIGIN))}

HeaderNames == {"origin", "referer", "content-type"}

headersOf(origin, referer, contentType) ==
    [h \in HeaderNames |->
        IF h = "origin" THEN origin
        ELSE IF h = "referer" THEN referer ELSE contentType]

Methods == {"GET", "HEAD", "OPTIONS", "POST", "DELETE"}

OriginValues ==
    {undefined, Some(EMPTY), Some(VALID_ORIGIN), Some(VALID_HOST_OTHER_PORT),
     Some(VALID_HOST_UPPERCASE), Some(INVALID_ORIGIN), Some(SUFFIXED_ORIGIN),
     Some(NULL_ORIGIN), Some(BARE_HOST), Some(OPAQUE_ORIGIN)}

RefererValues ==
    {undefined, Some(EMPTY), Some(VALID_REFERER), Some(INVALID_REFERER),
     Some(NULL_ORIGIN)}

ContentTypeValues ==
    {undefined, Some(EMPTY), Some(CT_JSON), Some(CT_URLENCODED),
     Some(CT_MULTIPART), Some(CT_TEXT_UPPER)}

Urls ==
    {U_GRAPHQL, U_GRAPHQL_SLASH, U_SYSTEM, U_SYSTEM_SLASH, U_SYSTEM_SUB,
     U_SYSTEMX, U_MALICIOUS, U_SYSTEM_QUERY, U_GRAPHQL_QUERY, U_LOGIN,
     U_PING, U_GRAPHQLX}

Bodies ==
    {undefined, Some(<<>>), Some(<<"query">>),
     Some(<<"query", "variables", "operationName">>),
     Some(<<"query", "malicious">>), Some(<<"email", "password">>),
     Some(<<"email", "password", "mode">>),
     Some(<<"email", "password", "malicious">>), Some(<<"Query">>)}

\* requests that vary in method and headers
HeaderRequests ==
    { [method |-> m, originalUrl |-> U_LOGIN,
       headers |-> headersOf(o, r, c), body |-> Some(<<"email", "password">>)] :
      m \in {"POST"}, o \in OriginValues, r \in RefererValues,
      c \in ContentTypeValues }
    \cup
    { [method |-> m, originalUrl |-> U_LOGIN,
       headers |-> headersOf(o, r, c), body |-> Some(<<"email", "password">>)] :
      m \in Methods, o \in OriginValues, r \in {undefined, Some(INVALID_REFERER)},
      c \in {undefined, Some(CT_URLENCODED), Some(CT_JSON)} }

\* requests that vary in URL and body
BodyRequests ==
    { [method |-> m, originalUrl |-> u,
       headers |-> headersOf(undefined, undefined, Some(CT_JSON)),
       body |-> b] :
      m \in {"GET", "POST"}, u \in Urls, b \in Bodies }

\* requests that several checks have a reason to reject
CombinedRequests ==
    { [method |-> m, originalUrl |-> u,
       headers |-> headersOf(Some(o), undefined, Some(CT_JSON)),
       body |-> b] :
      m \in {"GET", "POST"}, u \in {U_MALICIOUS, U_SYSTEM_SUB, U_LOGIN},
      o \in {INVALID_ORIGIN, VALID_ORIGIN},
      b \in {Some(<<"query">>), Some(<<"query", "malicious">>),
              Some(<<"email", "password", "malicious">>)} }

Requests == HeaderRequests \cup BodyRequests \cup CombinedRequests

\* a small mix of requests for concurrent exchanges
ConcurrentRequests ==
    { [method |-> "POST", originalUrl |-> U_LOGIN,
       headers |-> headersOf(Some(INVALID_ORIGIN), undefined, Some(CT_JSON)),
       body |-> Some(<<"email", "password">>)],
      [method |-> "POST", originalUrl |-> U_LOGIN,
       headers |-> headersOf(Some(VALID_ORIGIN), Some(INVALID_REFERER),
                             Some(CT_URLENCODED)),
       body |-> Some(<<"email", "password", "malicious">>)],
      [method |-> "GET", originalUrl |-> U_GRAPHQL_QUERY,
       headers |-> headersOf(Some(INVALID_ORIGIN), undefined, undefined),
       body |-> undefined],
      [method |-> "POST", originalUrl |-> U_MALICIOUS,
       headers |-> headersOf(undefined, undefined, Some(CT_JSON)),
       body |-> Some(<<"query">>)],
      [method |-> "DELETE", originalUrl |-> U_SYSTEM,
       headers |-> headersOf(Some(NULL_ORIGIN), undefined, undefined),
       body |-> Some(<<"query", "malicious">>)] }

\* requests handled behind the status rewriter
RewriteRequests ==
    { [method |-> m, originalUrl |-> u,
       headers |-> headersOf(undefined, undefined, undefined),
       body |-> undefined] :
      m \in {"GET", "POST"}, u \in {U_LOGIN, U_PING} }

\* what the handlers behind the status rewriter send
DownstreamStatuses == {200, 400, 403, 404, 500}

DownstreamBodies == {[data |-> <<"ok">>], AccessDenied}

---------------------------------------------------------------------------
(* State                                                                   *)

MaxInFlight == 2

MaxSends == 2

MaxServed == 2

NoRequest ==
    [method |-> "", originalUrl |-> <<>>,
     headers |-> headersOf(undefined, undefined, undefined),
     body |-> undefined]

\* pc: "idle", "chain" (about to run Layers[layer]), "handler" (past the
\* chain), "rewrite" (about to run the status rewriter), "downstream"
\* (behind the status rewriter), "done"
Idle ==
    [pc |-> "idle", layer |-> 0, req |-> NoRequest, res |-> freshResponse,
     log |-> <<>>]

Slots == DOMAIN conn

\* the hook's init callback has run in environment env
SetupDone(env) ==
    /\ allowedOrigins = ALLOWED_ORIGINS(env)
    /\ requestUrl = REQUEST_URL(env)
    /\ setup = [allowedOrigins |-> ALLOWED_ORIGINS(env),
                requestUrl |-> REQUEST_URL(env)]

Init ==
    /\ \E env \in Envs : SetupDone(env)
    /\ conn = [i \in 1..1 |-> Idle]
    /\ served = 0

InitConcurrent ==
    /\ \E env \in ConcurrentEnvs : SetupDone(env)
    /\ conn = [i \in 1..MaxInFlight |-> Idle]
    /\ served = 0

InitRewrite ==
    /\ SetupDone([ALLOWED_ORIGINS |-> undefined, PUBLIC_URL |-> undefined])
    /\ conn = [i \in 1..1 |-> Idle]
    /\ served = 0

\* the exchange c enters the first matching layer after layer k
enter(c, k) ==
    LET j == dispatch(c.req, k)
    IN  IF j <= Len(Layers)
        THEN [c EXCEPT !.pc = "chain", !.layer = j]
        ELSE [c EXCEPT !.pc = "handler", !.layer = 0]

\* the exchange c after its current middleware did out
after(c, name, out) ==
    LET d == [c EXCEPT
                !.res = out.res,
                !.log = Append(@, [layer |-> name, next |-> out.next,
                                   sent  |-> SubSeq(out.res.sent,
                                                    Len(c.res.sent) + 1,
                                                    Len(out.res.sent))])]
    IN  IF out.next > 0 THEN enter(d, c.layer)
        ELSE [d EXCEPT !.pc = "done", !.layer = 0]

atLayer(i, name) ==
    /\ conn[i].pc = "chain"
    /\ Layers[conn[i].layer].name = name

config == <<allowedOrigins, requestUrl, setup>>

---------------------------------------------------------------------------
(* Actions                                                                 *)

\* a request arrives on a connection that has no exchange under way
Arrive(i, r) ==
    /\ conn[i].pc = "idle"
    /\ conn' = [conn EXCEPT ![i] = enter([Idle EXCEPT !.req = r], 0)]
    /\ UNCHANGED <<config, served>>

\* variant: the check consumes the allowed list while it searches it
CheckOrigin_consumesList(i) ==
    /\ atLayer(i, "checkOrigin")
    /\ conn' = [conn EXCEPT ![i] =
                  after(conn[i], "checkOrigin",
                        createCheckOriginMiddleware(allowedOrigins, requestUrl,
                                                    conn[i].req, conn[i].res))]
    /\ allowedOrigins' =
          IF conn[i].req.method \in {"GET", "HEAD", "OPTIONS"}
          THEN allowedOrigins ELSE <<>>
    /\ UNCHANGED <<requestUrl, setup, served>>

CheckOrigin(i) ==
    /\ atLayer(i, "checkOrigin")
    /\ conn' = [conn EXCEPT ![i] =
                  after(conn[i], "checkOrigin",
                        createCheckOriginMiddleware(allowedOrigins, requestUrl,
                                                    conn[i].req, conn[i].res))]
    /\ UNCHANGED <<config, served>>

GraphQLPropertyValidation(i) ==
    /\ atLayer(i, "graphqlProperties")
    /\ conn' = [conn EXCEPT ![i] =
                  after(conn[i], "graphqlProperties",
                        createGraphQLPropertyValidation(conn[i].req,
                                                        conn[i].res))]
    /\ UNCHANGED <<config, served>>

AuthLoginPropertyValidation(i) ==
    /\ atLayer(i, "loginProperties")
    /\ conn' = [conn EXCEPT ![i] =
                  after(conn[i], "loginProperties",
                        createAuthLoginPropertyValidation(conn[i].req,
                                                          conn[i].res))]
    /\ UNCHANGED <<config, served>>

GraphQLEndpointValidation(i) ==
    /\ atLayer(i, "graphqlEndpoint")
    /\ conn' = [conn EXCEPT ![i] =
                  after(conn[i], "graphqlEndpoint",
                        createGraphQLEndpointValidation(conn[i].req,
                                                        conn[i].res))]
    /\ UNCHANGED <<config, served>>

\* the request left the chain: the application behind it answers
Handler(i) ==
    /\ conn[i].pc = "handler"
    /\ conn' = [conn EXCEPT ![i] =
                  [after(conn[i], "handler",
                         endRequest(send(conn[i].req, status(conn[i].res, 200),
                                         [data |-> <<"ok">>])))
                   EXCEPT !.pc = "done"]]
    /\ UNCHANGED <<config, served>>

\* the exchange is over
Finish(i) ==
    /\ conn[i].pc = "done"
    /\ served < MaxServed
    /\ conn' = [conn EXCEPT ![i] = Idle]
    /\ served' = served + 1
    /\ UNCHANGED config

ArriveRewrite(i, r) ==
    /\ conn[i].pc = "idle"
    /\ conn' = [conn EXCEPT ![i] = [Idle EXCEPT !.req = r, !.pc = "rewrite"]]
    /\ UNCHANGED <<config, served>>

StatusRewrite(i) ==
    /\ conn[i].pc = "rewrite"
    /\ LET out == createStatusRewriteMiddleware(conn[i].req, conn[i].res)
           d   == [conn[i] EXCEPT
                     !.res = out.res,
                     !.log = Append(@, [layer |-> "statusRewrite",
                                        next |-> out.next,
                                        sent |-> SubSeq(out.res.sent,
                                                    Len(conn[i].res.sent) + 1,
                                                    Len(out.res.sent))])]
       IN  conn' = [conn EXCEPT ![i] =
                      IF out.next > 0 THEN [d EXCEPT !.pc = "downstream"]
                      ELSE [d EXCEPT !.pc = "done"]]
    /\ UNCHANGED <<config, served>>

\* a handler behind the rewriter calls res.status(code)
DownstreamStatus(i, code) ==
    /\ conn[i].pc = "downstream"
    /\ conn[i].res.statusCode # code
    /\ conn' = [conn EXCEPT ![i].res = status(@, code)]
    /\ UNCHANGED <<config, served>>

\* a handler behind the rewriter calls res.send(body)
DownstreamSend(i, body) ==
    /\ conn[i].pc = "downstream"
    /\ Len(conn[i].res.calls) < MaxSends
    /\ conn' = [conn EXCEPT ![i].res = send(conn[i].req, @, body)]
    /\ UNCHANGED <<config, served>>

DownstreamEnd(i) ==
    /\ conn[i].pc = "downstream"
    /\ conn' = [conn EXCEPT ![i].pc = "done"]
    /\ UNCHANGED <<config, served>>

Next ==
    \/ \E i \in Slots, r \in Requests : Arrive(i, r)
    \/ \E i \in Slots : CheckOrigin(i)
    \/ \E i \in Slots : GraphQLPropertyValidation(i)
    \/ \E i \in Slots : AuthLoginPropertyValidation(i)
    \/ \E i \in Slots : GraphQLEndpointValidation(i)
    \/ \E i \in Slots : Handler(i)

Spec == Init /\ [][Next]_vars

NextConcurrent ==
    \/ \E i \in Slots, r \in ConcurrentRequests : Arrive(i, r)
    \/ \E i \in Slots : CheckOrigin(i)
    \/ \E i \in Slots : GraphQLPropertyValidation(i)
    \/ \E i \in Slots : AuthLoginPropertyValidation(i)
    \/ \E i \in Slots : GraphQLEndpointValidation(i)
    \/ \E i \in Slots : Handler(i)
    \/ \E i \in Slots : Finish(i)

SpecConcurrent == InitConcurrent /\ [][NextConcurrent]_vars

NextRewrite ==
    \/ \E i \in Slots, r \in RewriteRequests : ArriveRewrite(i, r)
    \/ \E i \in Slots : StatusRewrite(i)
    \/ \E i \in Slots, code \in DownstreamStatuses : DownstreamStatus(i, code)
    \/ \E i \in Slots, body \in DownstreamBodies : DownstreamSend(i, body)
    \/ \E i \in Slots : DownstreamEnd(i)
    \/ \E i \in Slots : Finish(i)

SpecRewrite == InitRewrite /\ [][NextRewrite]_vars

---------------------------------------------------------------------------
(* Vocabulary of the properties                                            *)

SafeMethodSet == {"GET", "HEAD", "OPTIONS"}

\* the entries of exchange c's log written by the check called name
entriesOf(c, name) == {c.log[k] : k \in {j \in 1..Len(c.log) : c.log[j].layer = name}}

\* the check passed the request on: next called once, nothing sent
Allows(e) == e.next = 1 /\ e.sent = <<>>

\* the check answered the request itself, and did not call next
Rejects(e, code, body) ==
    e.next = 0 /\ e.sent = <<[status |-> code, body |-> body]>>

\* a header counts as carried when it has a non-empty value
Carries(req, h) == Truthy(req.headers[h])

\* the source URL of a request: Origin, else Referer
SourceOf(req) ==
    IF Carries(req, "origin") THEN req.headers["origin"][1]
    ELSE req.headers["referer"][1]

HasSource(req) == Carries(req, "origin") \/ Carries(req, "referer")

\* the hostname an allowed entry stands for
EntryHostname(entry) == IF URL(entry).ok THEN URL(entry).hostname ELSE entry

\* the hostname of url is the hostname of some entry of the allowed list
HostnameAllowed(url) ==
    /\ URL(url).ok
    /\ \E k \in 1..Len(allowedOrigins) :
          URL(url).hostname = EntryHostname(allowedOrigins[k])

AllowlistMode == Len(allowedOrigins) > 0

CsrfMode == Len(allowedOrigins) = 0

FormLikeTypes ==
    {CT_URLENCODED,
     <<"m","u","l","t","i","p","a","r","t","/","f","o","r","m","-","d","a","t","a">>,
     <<"t","e","x","t","/","p","l","a","i","n">>}

FormLike(value) ==
    \E t \in FormLikeTypes : includes(toLowerCase(value), t)

---------------------------------------------------------------------------
(* C1: for every request whose method is GET, HEAD or OPTIONS the          *)
(* Origin/CSRF check calls next and sends nothing, whatever the Origin,    *)
(* Referer and Content-Type headers are and whether the allowed-origin     *)
(* list is empty or not.                                                   *)
C1_SafeMethodsPass ==
    \A i \in Slots :
        conn[i].req.method \in SafeMethodSet =>
            \A e \in entriesOf(conn[i], "checkOrigin") : Allows(e)

\* an OPTIONS form post from a foreign origin was checked in allowlist mode
C1_Witness ==
    \E i \in Slots :
        /\ conn[i].req.method = "OPTIONS"
        /\ conn[i].req.headers["origin"] = Some(INVALID_ORIGIN)
        /\ conn[i].req.headers["content-type"] = Some(CT_URLENCODED)
        /\ AllowlistMode
        /\ entriesOf(conn[i], "checkOrigin") # {}

---------------------------------------------------------------------------
(* C2: allowlist mode, non-safe method.  A request that carries neither    *)
(* Origin nor Referer is allowed; a request with a source URL (Origin,     *)
(* else Referer) is allowed exactly when the hostname of the source URL is *)
(* the hostname of some allowed entry (the entry parsed as a URL, or the   *)
(* raw entry when it does not parse), whatever the source's scheme and     *)
(* port; every other request is rejected with 403 and the body             *)
(* {error: "Access denied: unauthorized origin."}.  A header with an empty *)
(* value counts as not carried.                                            *)
C2_AllowlistDecision ==
    \A i \in Slots :
        (AllowlistMode /\ conn[i].req.method \notin SafeMethodSet) =>
            \A e \in entriesOf(conn[i], "checkOrigin") :
                IF ~HasSource(conn[i].req) THEN Allows(e)
                ELSE IF HostnameAllowed(SourceOf(conn[i].req)) THEN Allows(e)
                ELSE Rejects(e, 403, AccessDenied)

\* a POST from the allowed host under another scheme and port was allowed
\* against an entry given as a full URL
C2_Witness ==
    \E i \in Slots :
        /\ conn[i].req.method = "POST"
        /\ conn[i].req.headers["origin"] = Some(VALID_HOST_OTHER_PORT)
        /\ allowedOrigins = <<VALID_ORIGIN>>
        /\ \E e \in entriesOf(conn[i], "checkOrigin") : Allows(e)

---------------------------------------------------------------------------
(* C3: CSRF mode (empty allowed-origin list), non-safe method.  A request  *)
(* with no Origin is allowed; a request whose Origin equals the base URL   *)
(* exactly is allowed whatever its Content-Type; a request whose Origin    *)
(* differs from the base URL is rejected with 403 and the body             *)
(* {error: "Cross-site <METHOD> form submissions are forbidden"} when its  *)
(* Content-Type contains, case-insensitively, one of the three form types  *)
(* or when it has no Content-Type, and is allowed when its Content-Type    *)
(* contains none of the three.  A header with an empty value counts as     *)
(* not carried.                                                            *)
C3_CsrfDecision ==
    \A i \in Slots :
        (CsrfMode /\ conn[i].req.method \notin SafeMethodSet) =>
            \A e \in entriesOf(conn[i], "checkOrigin") :
                LET req == conn[i].req
                IN  IF ~Carries(req, "origin") THEN Allows(e)
                    ELSE IF req.headers["origin"][1] = requestUrl THEN Allows(e)
                    ELSE IF ~Carries(req, "content-type")
                    THEN Rejects(e, 403, CrossSiteForbidden(req.method))
                    ELSE IF FormLike(req.headers["content-type"][1])
                    THEN Rejects(e, 403, CrossSiteForbidden(req.method))
                    ELSE Allows(e)

\* a cross-origin POST with the content type "Text/Plain; charset=UTF-8"
\* was rejected
C3_Witness ==
    \E i \in Slots :
        /\ CsrfMode
        /\ conn[i].req.method = "POST"
        /\ conn[i].req.headers["origin"] = Some(INVALID_ORIGIN)
        /\ conn[i].req.headers["content-type"] = Some(CT_TEXT_UPPER)
        /\ \E e \in entriesOf(conn[i], "checkOrigin") :
              Rejects(e, 403, CrossSiteForbidden("POST"))

---------------------------------------------------------------------------
(* C4 as stated: a non-safe-method request that carries a source URL (the  *)
(* Origin header, or the Referer header when Origin is absent) that does   *)
(* not parse as a URL is rejected by the Origin/CSRF check with status     *)
(* 403, and is never passed on to the next handler.                        *)
C4_UnparseableSourceRejected ==
    \A i \in Slots :
        LET req == conn[i].req
        IN  ( /\ req.method \notin SafeMethodSet
              /\ HasSource(req)
              /\ ~URL(SourceOf(req)).ok ) =>
                \A e \in entriesOf(conn[i], "checkOrigin") :
                    /\ e.next = 0
                    /\ Len(e.sent) = 1
                    /\ e.sent[1].status = 403

(* C4 as amended: in allowlist mode, a non-safe-method request whose       *)
(* source URL (the Origin header, or the Referer header when Origin is     *)
(* absent or empty) is non-empty and does not parse as a URL is rejected   *)
(* with 403 "Access denied: unauthorized origin.", no later check and no   *)
(* handler runs for it.  (In CSRF mode the Origin is never parsed.)        *)
C4_UnparseableSourceRejectedInAllowlistMode ==
    \A i \in Slots :
        LET req == conn[i].req
        IN  ( /\ AllowlistMode
              /\ req.method \notin SafeMethodSet
              /\ HasSource(req)
              /\ ~URL(SourceOf(req)).ok ) =>
                \A k \in 1..Len(conn[i].log) :
                    conn[i].log[k].layer = "checkOrigin" =>
                        /\ Rejects(conn[i].log[k], 403, AccessDenied)
                        /\ k = Len(conn[i].log)
                        /\ conn[i].pc = "done"

\* a POST whose Origin is "null" was rejected in allowlist mode
C4_Witness ==
    \E i \in Slots :
        /\ AllowlistMode
        /\ conn[i].req.method = "POST"
        /\ conn[i].req.headers["origin"] = Some(NULL_ORIGIN)
        /\ \E e \in entriesOf(conn[i], "checkOrigin") :
              Rejects(e, 403, AccessDenied)

---------------------------------------------------------------------------
(* C5: in allowlist mode, when a non-safe request carries both Origin and  *)
(* Referer the decision is the one obtained from Origin alone (allowed     *)
(* Origin with disallowed Referer: allowed; disallowed Origin with allowed *)
(* Referer: 403); Referer decides only when Origin is not carried.         *)
C5_OriginTakesPrecedence ==
    \A i \in Slots :
        LET req     == conn[i].req
            origin  == req.headers["origin"]
            referer == req.headers["referer"]
        IN  ( /\ AllowlistMode
              /\ req.method \notin SafeMethodSet
              /\ Carries(req, "referer") ) =>
                \A e \in entriesOf(conn[i], "checkOrigin") :
                    /\ Carries(req, "origin") =>
                          /\ HostnameAllowed(origin[1]) => Allows(e)
                          /\ ~HostnameAllowed(origin[1]) =>
                                Rejects(e, 403, AccessDenied)
                    /\ ~Carries(req, "origin") =>
                          (Allows(e) <=> HostnameAllowed(referer[1]))

\* a POST with an allowed Origin and a disallowed Referer was allowed
C5_Witness ==
    \E i \in Slots :
        /\ AllowlistMode
        /\ conn[i].req.method = "POST"
        /\ conn[i].req.headers["origin"] = Some(VALID_ORIGIN)
        /\ conn[i].req.headers["referer"] = Some(INVALID_REFERER)
        /\ HostnameAllowed(VALID_ORIGIN)
        /\ ~HostnameAllowed(INVALID_REFERER)
        /\ \E e \in entriesOf(conn[i], "checkOrigin") : Allows(e)

---------------------------------------------------------------------------
(* C6: each body property check rejects with 400 and the body              *)
(* {error: "Request contains invalid properties."} exactly when the parsed *)
(* body has a key outside the route's allowed set ({query, variables,      *)
(* operationName} for GraphQL, {email, password, mode} for login); an      *)
(* absent or empty body, or one with only allowed keys, is passed on.      *)
KeysOf(req) ==
    IF req.body = undefined THEN {}
    ELSE {req.body[1][k] : k \in 1..Len(req.body[1])}

PropertyDecision(e, req, allowedKeys) ==
    IF KeysOf(req) \subseteq allowedKeys THEN Allows(e)
    ELSE Rejects(e, 400, InvalidProperties)

C6_PropertyChecks ==
    \A i \in Slots :
        /\ \A e \in entriesOf(conn[i], "graphqlProperties") :
              PropertyDecision(e, conn[i].req,
                               {"query", "variables", "operationName"})
        /\ \A e \in entriesOf(conn[i], "loginProperties") :
              PropertyDecision(e, conn[i].req, {"email", "password", "mode"})

\* a GraphQL body with the keys query and malicious was rejected
C6_Witness ==
    \E i \in Slots :
        /\ conn[i].req.body = Some(<<"query", "malicious">>)
        /\ \E e \in entriesOf(conn[i], "graphqlProperties") :
              Rejects(e, 400, InvalidProperties)

---------------------------------------------------------------------------
(* C7: the GraphQL endpoint check rejects with 400 and the body            *)
(* {error: "Invalid endpoint."} every request to a sub-path                *)
(* /graphql/<rest> whose <rest> does not begin with the path segment       *)
(* system, and passes every request to /graphql, /graphql/system and       *)
(* /graphql/system/<anything> and every request outside /graphql/; the     *)
(* decision does not depend on method, headers or body.                    *)
FirstSegment(path) ==
    LET slash == indexOfAny(path, {"/"})
    IN  IF slash = 0 THEN path ELSE SubSeq(path, 1, slash - 1)

\* the request goes to a sub-path of /graphql/ other than system's
InvalidSubPath(url) ==
    LET path == pathname(url)
    IN  /\ startsWith(path, graphqlSlash)
        /\ FirstSegment(from(path, Len(graphqlSlash) + 1)) # system

C7_EndpointDecision ==
    \A i \in Slots :
        \A e \in entriesOf(conn[i], "graphqlEndpoint") :
            IF InvalidSubPath(conn[i].req.originalUrl)
            THEN Rejects(e, 400, InvalidEndpoint)
            ELSE Allows(e)

---------------------------------------------------------------------------
(* C8: with the status rewriter installed, a body sent while the status is *)
(* exactly 403 goes out with status 404 and the fixed envelope             *)
(* {errors: [{message: "Not found.", extensions: {code: "ROUTE_NOT_FOUND", *)
(* path: <original URL>}}]} in place of the body; a body sent with any     *)
(* other status (404 included, so also a second send after a rewrite) goes *)
(* out with that status, unchanged; the rewriter itself always calls next  *)
(* and sends nothing.                                                      *)
ExpectedEnvelope(url) ==
    [errors |-> << [message    |-> "Not found.",
                    extensions |-> [code |-> "ROUTE_NOT_FOUND",
                                    path |-> url]] >>]

C8_StatusRewrite ==
    \A i \in Slots :
        LET res == conn[i].res
        IN  /\ \A e \in entriesOf(conn[i], "statusRewrite") : Allows(e)
            /\ res.wrapped =>
                  /\ Len(res.sent) = Len(res.calls)
                  /\ \A k \in 1..Len(res.calls) :
                        IF res.calls[k].status = 403
                        THEN res.sent[k] =
                                [status |-> 404,
                                 body   |-> ExpectedEnvelope(
                                                conn[i].req.originalUrl)]
                        ELSE res.sent[k] = res.calls[k]

\* behind the rewriter a body was sent with status 403, and then another
\* one without the status being set again
C8_Witness ==
    \E i \in Slots :
        LET res == conn[i].res
        IN  /\ res.wrapped
            /\ Len(res.calls) = 2
            /\ res.calls[1] = [status |-> 403, body |-> AccessDenied]
            /\ res.calls[2] = [status |-> 404, body |-> [data |-> <<"ok">>]]
            /\ res.sent[1].status = 404
            /\ res.sent[2] = res.calls[2]

---------------------------------------------------------------------------
(* C9: in the chain the hook registers, every check on every request       *)
(* either calls next once and sends nothing, or sends one response and     *)
(* does not call next.  Once a check rejects, no later check and no        *)
(* handler runs for that request, and the response of the exchange is      *)
(* exactly that check's status and error body (for an unauthorized origin: *)
(* 403 with "Access denied ...").                                          *)
CheckNames == {Layers[k].name : k \in 1..Len(Layers)}

C9_RejectIsFinal ==
    \A i \in Slots :
        \A k \in 1..Len(conn[i].log) :
            LET e == conn[i].log[k]
            IN  e.layer \in CheckNames =>
                  /\ \/ (e.next = 1 /\ Len(e.sent) = 0)
                     \/ (e.next = 0 /\ Len(e.sent) = 1)
                  /\ e.next = 0 =>
                        /\ k = Len(conn[i].log)
                        /\ conn[i].pc = "done"
                        /\ conn[i].res.sent = e.sent
                        /\ e.sent[1].status \in {400, 403}
                  /\ ( /\ e.layer = "checkOrigin"
                       /\ e.next = 0
                       /\ AllowlistMode ) =>
                        conn[i].res.sent =
                            <<[status |-> 403, body |-> AccessDenied]>>

\* a POST to /auth/login from an unauthorized origin got 403 Access denied
\* and went no further
C9_Witness ==
    \E i \in Slots :
        /\ AllowlistMode
        /\ conn[i].req.method = "POST"
        /\ conn[i].req.originalUrl = U_LOGIN
        /\ conn[i].req.headers["origin"] = Some(INVALID_ORIGIN)
        /\ conn[i].pc = "done"
        /\ Len(conn[i].log) = 1
        /\ conn[i].res.sent = <<[status |-> 403, body |-> AccessDenied]>>

---------------------------------------------------------------------------
(* C10: over any sequence and interleaving of in-flight requests, the      *)
(* decision each check takes on a request is the one it takes on that      *)
(* request in isolation: it depends only on the request and on the         *)
(* allowed-origin list and base URL fixed at setup, which no check         *)
(* modifies; so a check run twice on the same request decides the same.    *)

\* what the check called name does with req alone, under the setup
InIsolation(name, req) ==
    IF name = "checkOrigin"
    THEN createCheckOriginMiddleware(setup.allowedOrigins, setup.requestUrl,
                                     req, freshResponse)
    ELSE IF name = "graphqlProperties"
    THEN createGraphQLPropertyValidation(req, freshResponse)
    ELSE IF name = "loginProperties"
    THEN createAuthLoginPropertyValidation(req, freshResponse)
    ELSE createGraphQLEndpointValidation(req, freshResponse)

C10_DecisionsAreIsolated ==
    /\ allowedOrigins = setup.allowedOrigins
    /\ requestUrl = setup.requestUrl
    /\ \A i \in Slots :
          \A k \in 1..Len(conn[i].log) :
              LET e == conn[i].log[k]
              IN  e.layer \in CheckNames =>
                    /\ e.next = InIsolation(e.layer, conn[i].req).next
                    /\ e.sent = InIsolation(e.layer, conn[i].req).res.sent
    /\ \A i, j \in Slots :
          conn[i].req = conn[j].req =>
              \A k \in 1..Len(conn[i].log) :
                  k <= Len(conn[j].log) => conn[i].log[k] = conn[j].log[k]

\* after an earlier exchange is over, two exchanges are under way at once,
\* one rejected and one passed on by the Origin/CSRF check
C10_Witness ==
    /\ served > 0
    /\ \E i, j \in Slots :
          /\ i # j
          /\ conn[i].req.method = "POST"
          /\ conn[j].req.method = "POST"
          /\ \E e \in entriesOf(conn[i], "checkOrigin") : e.next = 0
          /\ \E e \in entriesOf(conn[j], "checkOrigin") : e.next = 1

---------------------------------------------------------------------------
(* C11: the chain applies the checks in the fixed order Origin/CSRF check, *)
(* GraphQL property check (requests under /graphql), login property check  *)
(* (requests under /auth/login), GraphQL endpoint check, and the first     *)
(* check that rejects determines the response: a non-safe request that the *)
(* Origin/CSRF check rejects gets 403 even when its body has disallowed    *)
(* keys or its path is an invalid /graphql/ sub-path, and a request to a   *)
(* non-system /graphql/<rest> sub-path whose parsed body has a disallowed  *)
(* key gets 400 "Request contains invalid properties.", not 400 "Invalid   *)
(* endpoint.".                                                             *)
ExpectedOrder ==
    <<"checkOrigin", "graphqlProperties", "loginProperties", "graphqlEndpoint">>

\* the path of url is prefix or lies below it
Under(url, prefix) ==
    LET path == pathname(url)
    IN  \/ path = prefix
        \/ startsWith(path, prefix \o <<"/">>)

\* the check called name applies to the request
AppliesTo(name, req) ==
    IF name = "graphqlProperties" THEN Under(req.originalUrl, U_GRAPHQL)
    ELSE IF name = "loginProperties" THEN Under(req.originalUrl, U_LOGIN)
    ELSE TRUE

\* the checks that apply to the request, in the order of the chain
RECURSIVE ApplicableFrom(_, _)
ApplicableFrom(k, req) ==
    IF k > Len(ExpectedOrder) THEN <<>>
    ELSE (IF AppliesTo(ExpectedOrder[k], req) THEN <<ExpectedOrder[k]>>
          ELSE <<>>) \o ApplicableFrom(k + 1, req)

\* the checks of exchange c that have run, in the order they ran
ChecksRun(c) ==
    LET n == Cardinality({k \in 1..Len(c.log) : c.log[k].layer \in CheckNames})
    IN  [k \in 1..n |-> c.log[k].layer]

C11_FirstRejectionWins ==
    \A i \in Slots :
        LET c          == conn[i]
            req        == c.req
            applicable == ApplicableFrom(1, req)
            run        == ChecksRun(c)
        IN  /\ Len(run) <= Len(applicable)
            /\ \A k \in 1..Len(run) :
                  /\ c.log[k].layer = applicable[k]
                  /\ k < Len(run) => Allows(c.log[k])
            /\ c.pc \in {"handler", "done"} =>
                  \/ Len(run) = Len(applicable) /\ Allows(c.log[Len(run)])
                  \/ /\ c.log[Len(run)].next = 0
                     /\ c.res.sent = c.log[Len(run)].sent
            /\ \A e \in entriesOf(c, "checkOrigin") :
                  e.next = 0 =>
                      /\ Len(c.log) = 1
                      /\ c.res.sent[1].status = 403
            /\ ( /\ c.pc = "done"
                 /\ InvalidSubPath(req.originalUrl)
                 /\ ~(KeysOf(req) \subseteq {"query", "variables", "operationName"})
                 /\ \A e \in entriesOf(c, "checkOrigin") : Allows(e) ) =>
                    c.res.sent = <<[status |-> 400, body |-> InvalidProperties]>>

\* a POST to /graphql/malicious whose body has the key malicious passed the
\* Origin/CSRF check and got 400 "Request contains invalid properties."
C11_Witness ==
    \E i \in Slots :
        /\ conn[i].req.method = "POST"
        /\ conn[i].req.originalUrl = U_MALICIOUS
        /\ conn[i].req.headers["origin"] = Some(VALID_ORIGIN)
        /\ conn[i].req.body = Some(<<"query", "malicious">>)
        /\ conn[i].pc = "done"
        /\ Len(conn[i].log) = 2
        /\ conn[i].res.sent = <<[status |-> 400, body |-> InvalidProperties]>>

\* a POST to /graphql/malicious from an unauthorized origin, with a
\* disallowed body key, got 403 from the Origin/CSRF check
C11_WitnessOriginFirst ==
    \E i \in Slots :
        /\ conn[i].req.method = "POST"
        /\ conn[i].req.originalUrl = U_MALICIOUS
        /\ conn[i].req.headers["origin"] = Some(INVALID_ORIGIN)
        /\ conn[i].req.body = Some(<<"query", "malicious">>)
        /\ conn[i].pc = "done"
        /\ conn[i].res.sent = <<[status |-> 403, body |-> AccessDenied]>>

===========================================================================
